---------------------------- MODULE Spec2Model ----------------------------
(***************************************************************************)
(* A model of services/face_analyze/feel_flow.py: the two entry points     *)
(* analyze (attribute aggregation per detected face) and verify (pairwise  *)
(* minimum-distance face matching with a threshold verdict).               *)
(*                                                                         *)
(* One call runs at a time (the module is synchronous and single-threaded).*)
(* pc is the position inside the running call; a call that has ended       *)
(* (pc = "done") carries its outcome: "returned" or the error it raised.   *)
(*                                                                         *)
(* Collaborators that live outside feel_flow.py (the extraction adapter,   *)
(* the predictor registry, the distance functions, the attribute           *)
(* converters) are modelled at their interface.  Embeddings are vectors of *)
(* dimension 1 over the integers, where the cosine and the euclidean       *)
(* distance are both exact integer functions.                              *)
(***************************************************************************)
EXTENDS Integers, Sequences, FiniteSets, TLC

VARIABLES
    pc,                 \* position in the running call
    fn,                 \* "none" | "analyze" | "verify"
    outcome,            \* "none" | "returned" | the error raised
    enforce_detection,  \* argument of both entry points
    image,              \* analyze: the faces the detector finds in img
    actions,            \* analyze: argument actions, attribute -> flag
    img_objs,           \* analyze: local img_objs
    models,             \* analyze: local models, attribute -> predictor instance
    buildCount,         \* analyze: F.build_model calls per attribute
    predictLog,         \* analyze: model.predict calls, <<face index, attribute, instance>>
    idx,                \* analyze: position of the face loop in img_objs
    resp_objects,       \* analyze: local resp_objects
    attrLog,            \* analyze: per emitted record, the attributes computed without error
    aresult,            \* analyze: the value returned
    img1, img2,         \* verify: the embeddings of the faces the detector finds
    model_name,         \* verify: argument
    distance_metric,    \* verify: argument
    vi, vj,             \* verify: positions of the outer and the inner loop
    faces2,             \* verify: the inner loop's extraction of img2
    distances, regions, \* verify: locals
    threshold,          \* verify: local threshold
    thresholdArgs,      \* verify: the arguments F.find_threshold was called with
    extractCalls,       \* verify: F.extract_faces calls
    representCalls,     \* verify: F.represent calls
    vresult             \* verify: the value returned

vars == << pc, fn, outcome, enforce_detection, image, actions, img_objs, models,
           buildCount, predictLog, idx, resp_objects, attrLog, aresult, img1,
           img2,
           model_name, distance_metric, vi, vj, faces2, distances, regions,
           threshold, thresholdArgs, extractCalls, representCalls, vresult >>

avars == << image, actions, img_objs, models, buildCount, predictLog, idx,
            resp_objects, attrLog, aresult >>

vvars == << img1, img2, model_name, distance_metric, vi, vj, faces2, distances,
            regions, threshold, thresholdArgs, extractCalls, representCalls,
            vresult >>

-----------------------------------------------------------------------------
(* Bounds *)

MaxFaces == 2       \* faces per image
MaxThreshold == 3   \* registry thresholds range over 0..MaxThreshold

(* Program constants *)

TargetHeight == 224
TargetWidth == 224

-----------------------------------------------------------------------------
(* Values *)

Attrs == {"age", "emotion", "gender", "race"}
AttrOrder == << "age", "emotion", "gender", "race" >>

Metrics == {"cosine", "euclidean", "euclidean_l2"}
MetricNames == Metrics \cup {"manhattan"}
ModelNames == {"VGG-Face", "Facenet"}

\* The detector's (region, confidence) pairs: opaque values.
Detections == { [region |-> "rA", confidence |-> "hi"],
                [region |-> "rB", confidence |-> "lo"] }

\* img.shape[0], img.shape[1] of a crop: the target size, or degenerate.
Shapes == {0, TargetHeight} \X {0, TargetWidth}

Faces == { [shape |-> s, region |-> d.region, confidence |-> d.confidence] :
           s \in Shapes, d \in Detections }

EmbVals == {-1, 1, 2}

SeqUpTo(S, n) == UNION { [1..k -> S] : k \in 0..n }

EmptyDict == [k \in {} |-> "none"]

NoVerifyResult == [none |-> TRUE]

-----------------------------------------------------------------------------
(* Collaborators, at their interface *)

\* F.extract_faces: the detected faces, or the detection error when
\* enforce_detection is true and no face is found.
ExtractFaces(img, enforce) ==
    [raised |-> (enforce /\ Len(img) = 0), faces |-> img]

\* getattr(FaceProcessor, action)(prediction): the attribute's result keys.
Convert(action) ==
    IF action = "age"
    THEN [k \in {"age"} |-> "value"]
    ELSE [k \in {action, "dominant_" \o action} |-> "value"]

Sign(x) == IF x > 0 THEN 1 ELSE IF x < 0 THEN -1 ELSE 0
Abs(x) == IF x < 0 THEN -x ELSE x

\* commons.distance.find_cosine on vectors of dimension 1.
find_cosine(a, b) == 1 - Sign(a) * Sign(b)

\* commons.distance.find_euclidean on vectors of dimension 1.
find_euclidean(a, b) == Abs(a - b)

-----------------------------------------------------------------------------
(* analyze *)

\* A comprehension that drops the 'if s' filter.
RequestedModelsAll(acts) == DOMAIN acts

\* The dict comprehension of models: the attributes whose flag is true.
RequestedModels(acts) == { a \in DOMAIN acts : acts[a] }

\* The degenerate-crop test of the face loop.
IsDegenerate(shape) == shape[1] <= 0 \/ shape[2] <= 0

\* dict.update: the keys of d are set in obj.
Update(obj, d) == d @@ obj

\* A handler that records the failed attribute as null instead of leaving it out.
AttributeStepNull(obj, action, succeeds) ==
    IF succeeds THEN Update(obj, Convert(action))
    ELSE Update(obj, [k \in DOMAIN Convert(action) |-> "null"])

\* One pass of the attribute loop's body: try the predictor and the
\* conversion and merge the result; on any exception, continue.
AttributeStep(obj, action, succeeds) ==
    IF succeeds THEN Update(obj, Convert(action)) ELSE obj

\* The attribute loop over models.items(), in the dict's order; ok is the set
\* of attributes whose predictor call and conversion both succeed on this face.
RECURSIVE AttributeLoop(_, _, _, _)
AttributeLoop(obj, built, ok, k) ==
    IF k > Len(AttrOrder) THEN obj
    ELSE AttributeLoop(
            IF AttrOrder[k] \in built
            THEN AttributeStep(obj, AttrOrder[k], AttrOrder[k] \in ok)
            ELSE obj,
            built, ok, k + 1)

\* The record the face loop starts from.
NewObject(face) ==
    [k \in {"region", "face_confidence"} |->
        IF k = "region" THEN face.region ELSE face.confidence]

\* What analyze returns when extraction raises ValueError.
NoFaceReturn == << EmptyDict >>

AnalyzeCall ==
    /\ pc = "idle"
    /\ \E im \in SeqUpTo(Faces, MaxFaces), acts \in [Attrs -> BOOLEAN],
          enf \in BOOLEAN :
          /\ image' = im
          /\ actions' = acts
          /\ enforce_detection' = enf
    /\ fn' = "analyze"
    /\ pc' = "a_extract"
    /\ UNCHANGED << outcome, img_objs, models, buildCount, predictLog, idx,
                    resp_objects, attrLog, aresult >>
    /\ UNCHANGED vvars

\* try: img_objs = F.extract_faces(...)  except ValueError: return [{}]
AnalyzeExtract ==
    /\ pc = "a_extract"
    /\ LET e == ExtractFaces(image, enforce_detection) IN
       IF e.raised
       THEN /\ aresult' = NoFaceReturn
            /\ outcome' = "returned"
            /\ pc' = "done"
            /\ UNCHANGED img_objs
       ELSE /\ img_objs' = e.faces
            /\ pc' = "a_build"
            /\ UNCHANGED << aresult, outcome >>
    /\ UNCHANGED << fn, enforce_detection, image, actions, models, buildCount,
                    predictLog, idx, resp_objects, attrLog >>
    /\ UNCHANGED vvars

\* models = {a: F.build_model(a.capitalize()) for a, s in actions.items() if s}
\* resp_objects = []
AnalyzeBuild ==
    /\ pc = "a_build"
    /\ LET built == RequestedModels(actions) IN
       /\ buildCount' = [a \in Attrs |->
                            IF a \in built THEN buildCount[a] + 1 ELSE buildCount[a]]
       /\ models' = [a \in built |-> << a, buildCount'[a] >>]
    /\ resp_objects' = << >>
    /\ attrLog' = << >>
    /\ idx' = 1
    /\ pc' = "a_loop"
    /\ UNCHANGED << fn, outcome, enforce_detection, image, actions, img_objs,
                    predictLog, aresult >>
    /\ UNCHANGED vvars

\* One iteration of: for img, region, confidence in img_objs
AnalyzeFace ==
    /\ pc = "a_loop"
    /\ idx <= Len(img_objs)
    /\ LET face == img_objs[idx] IN
       IF IsDegenerate(face.shape)
       THEN UNCHANGED << resp_objects, attrLog, predictLog >>
       ELSE \E ok \in SUBSET DOMAIN models :
               /\ resp_objects' = Append(resp_objects,
                     AttributeLoop(NewObject(face), DOMAIN models, ok, 1))
               /\ attrLog' = Append(attrLog, ok)
               /\ predictLog' = predictLog \cup
                     { << idx, a, models[a] >> : a \in DOMAIN models }
    /\ idx' = idx + 1
    /\ UNCHANGED << pc, fn, outcome, enforce_detection, image, actions, img_objs,
                    models, buildCount, aresult >>
    /\ UNCHANGED vvars

\* return resp_objects
AnalyzeReturn ==
    /\ pc = "a_loop"
    /\ idx > Len(img_objs)
    /\ aresult' = resp_objects
    /\ outcome' = "returned"
    /\ pc' = "done"
    /\ UNCHANGED << fn, enforce_detection, image, actions, img_objs, models,
                    buildCount, predictLog, idx, resp_objects, attrLog >>
    /\ UNCHANGED vvars

-----------------------------------------------------------------------------
(* verify *)

\* The region of face k of image n, as the extraction adapter reports it.
Region(n, k) == << n, k >>

\* repr1 hoisted out of the inner loop: computed once per face of img1.
RepresentCallsCached(i, j) == IF j = 1 THEN 2 ELSE 1

\* F.represent(c, model_name, ...)[0]["embedding"] calls of one pair: repr1
\* and repr2 are both computed inside the inner loop.
RepresentCalls(i, j) == 2

\* min(distances) of a non-empty list.
Min(ds) == CHOOSE d \in { ds[k] : k \in 1..Len(ds) } :
              \A k \in 1..Len(ds) : d <= ds[k]

\* An argmin that keeps the last position of the minimum.
ArgMinLast(ds) == CHOOSE k \in 1..Len(ds) :
                     /\ \A m \in 1..Len(ds) : ds[k] <= ds[m]
                     /\ \A m \in (k + 1)..Len(ds) : ds[m] > ds[k]

\* np.argmin(distances): the first position of the minimum (1-based here).
ArgMin(ds) == CHOOSE k \in 1..Len(ds) :
                 /\ \A m \in 1..Len(ds) : ds[k] <= ds[m]
                 /\ \A m \in 1..(k - 1) : ds[m] > ds[k]

\* A strict comparison.
VerifiedStrict(distance, thr) == distance < thr

\* "verified": True if distance <= threshold else False
Verified(distance, thr) == distance <= thr

\* The arguments of F.find_threshold.
ThresholdArgs(model, metric) == << model, metric >>

VerifyCall ==
    /\ pc = "idle"
    /\ \E a \in SeqUpTo(EmbVals, MaxFaces), b \in SeqUpTo(EmbVals, MaxFaces),
          m \in ModelNames, d \in MetricNames, enf \in BOOLEAN :
          /\ img1' = a
          /\ img2' = b
          /\ model_name' = m
          /\ distance_metric' = d
          /\ enforce_detection' = enf
    /\ fn' = "verify"
    /\ pc' = "v_extract1"
    /\ UNCHANGED << outcome, vi, vj, faces2, distances, regions, threshold,
                    thresholdArgs, extractCalls, representCalls, vresult >>
    /\ UNCHANGED avars

\* target_size = F.find_size(model_name); distances, regions = [], []
\* and the outer loop's F.extract_faces(img1, ...)
VerifyExtract1 ==
    /\ pc = "v_extract1"
    /\ extractCalls' = extractCalls + 1
    /\ distances' = << >>
    /\ regions' = << >>
    /\ IF ExtractFaces(img1, enforce_detection).raised
       THEN /\ outcome' = "NoFaceDetected"
            /\ pc' = "done"
            /\ UNCHANGED vi
       ELSE /\ vi' = 1
            /\ pc' = "v_outer"
            /\ UNCHANGED outcome
    /\ UNCHANGED << fn, enforce_detection, img1, img2, model_name,
                    distance_metric, vj, faces2, threshold, thresholdArgs,
                    representCalls, vresult >>
    /\ UNCHANGED avars

\* The head of the outer loop: the next face of img1 and, for it, the inner
\* loop's F.extract_faces(img2, ...); the loop's end leads to line 93.
VerifyOuter ==
    /\ pc = "v_outer"
    /\ IF vi > Len(img1)
       THEN /\ pc' = "v_threshold"
            /\ UNCHANGED << extractCalls, faces2, vj, outcome >>
       ELSE /\ extractCalls' = extractCalls + 1
            /\ LET e == ExtractFaces(img2, enforce_detection) IN
               IF e.raised
               THEN /\ outcome' = "NoFaceDetected"
                    /\ pc' = "done"
                    /\ UNCHANGED << faces2, vj >>
               ELSE /\ faces2' = e.faces
                    /\ vj' = 1
                    /\ pc' = "v_inner"
                    /\ UNCHANGED outcome
    /\ UNCHANGED << fn, enforce_detection, img1, img2, model_name,
                    distance_metric, vi, distances, regions, threshold,
                    thresholdArgs, representCalls, vresult >>
    /\ UNCHANGED avars

\* One iteration of the inner loop: both embeddings, the metric's branch,
\* the two appends.  In the else branch dst is read before it is assigned
\* (UnboundLocalError on the first pair; a float without l2_normalize after).
VerifyPair ==
    /\ pc = "v_inner"
    /\ vj <= Len(faces2)
    /\ representCalls' = representCalls + RepresentCalls(vi, vj)
    /\ LET repr1 == img1[vi]
           repr2 == faces2[vj]
       IN  IF distance_metric \in {"cosine", "euclidean"}
           THEN /\ distances' = Append(distances,
                      IF distance_metric = "cosine"
                      THEN find_cosine(repr1, repr2)
                      ELSE find_euclidean(repr1, repr2))
                /\ regions' = Append(regions, << Region(1, vi), Region(2, vj) >>)
                /\ vj' = vj + 1
                /\ UNCHANGED << pc, outcome >>
           ELSE /\ outcome' = IF Len(distances) = 0
                              THEN "UnboundLocalError" ELSE "AttributeError"
                /\ pc' = "done"
                /\ UNCHANGED << distances, regions, vj >>
    /\ UNCHANGED << fn, enforce_detection, img1, img2, model_name,
                    distance_metric, vi, faces2, threshold, thresholdArgs,
                    extractCalls, vresult >>
    /\ UNCHANGED avars

\* The inner loop's end: on to the next face of img1.
VerifyInnerEnd ==
    /\ pc = "v_inner"
    /\ vj > Len(faces2)
    /\ vi' = vi + 1
    /\ pc' = "v_outer"
    /\ UNCHANGED << fn, outcome, enforce_detection, img1, img2, model_name,
                    distance_metric, vj, faces2, distances, regions, threshold,
                    thresholdArgs, extractCalls, representCalls, vresult >>
    /\ UNCHANGED avars

\* threshold = F.find_threshold(model_name, distance_metric): the registry's
\* value, any value of its range.
VerifyThreshold ==
    /\ pc = "v_threshold"
    /\ \E t \in 0..MaxThreshold : threshold' = t
    /\ thresholdArgs' = ThresholdArgs(model_name, distance_metric)
    /\ pc' = "v_min"
    /\ UNCHANGED << fn, outcome, enforce_detection, img1, img2, model_name,
                    distance_metric, vi, vj, faces2, distances, regions,
                    extractCalls, representCalls, vresult >>
    /\ UNCHANGED avars

\* distance = min(distances); facial_areas = regions[np.argmin(distances)];
\* return {...}.  min of an empty list raises ValueError.
VerifyMin ==
    /\ pc = "v_min"
    /\ IF Len(distances) = 0
       THEN /\ outcome' = "EmptyMinValueError"
            /\ UNCHANGED vresult
       ELSE LET distance == Min(distances)
                facial_areas == regions[ArgMin(distances)]
            IN  /\ vresult' =
                      [verified |-> Verified(distance, threshold),
                       distance |-> distance,
                       threshold |-> threshold,
                       model |-> model_name,
                       similarity_metric |-> distance_metric,
                       facial_areas |-> [img1 |-> facial_areas[1],
                                         img2 |-> facial_areas[2]]]
                /\ outcome' = "returned"
    /\ pc' = "done"
    /\ UNCHANGED << fn, enforce_detection, img1, img2, model_name,
                    distance_metric, vi, vj, faces2, distances, regions,
                    threshold, thresholdArgs, extractCalls, representCalls >>
    /\ UNCHANGED avars

-----------------------------------------------------------------------------
Init ==
    /\ pc = "idle"
    /\ fn = "none"
    /\ outcome = "none"
    /\ enforce_detection = TRUE
    /\ image = << >>
    /\ actions = [a \in Attrs |-> TRUE]
    /\ img_objs = << >>
    /\ models = EmptyDict
    /\ buildCount = [a \in Attrs |-> 0]
    /\ predictLog = {}
    /\ idx = 0
    /\ resp_objects = << >>
    /\ attrLog = << >>
    /\ aresult = << >>
    /\ img1 = << >>
    /\ img2 = << >>
    /\ model_name = "VGG-Face"
    /\ distance_metric = "cosine"
    /\ vi = 0
    /\ vj = 0
    /\ faces2 = << >>
    /\ distances = << >>
    /\ regions = << >>
    /\ threshold = 0
    /\ thresholdArgs = << >>
    /\ extractCalls = 0
    /\ representCalls = 0
    /\ vresult = NoVerifyResult

\* The call has ended; its locals are gone and the next call starts afresh.
Finish ==
    /\ pc = "done"
    /\ pc' = "idle"
    /\ fn' = "none"
    /\ outcome' = "none"
    /\ enforce_detection' = TRUE
    /\ image' = << >>
    /\ actions' = [a \in Attrs |-> TRUE]
    /\ img_objs' = << >>
    /\ models' = EmptyDict
    /\ buildCount' = [a \in Attrs |-> 0]
    /\ predictLog' = {}
    /\ idx' = 0
    /\ resp_objects' = << >>
    /\ attrLog' = << >>
    /\ aresult' = << >>
    /\ img1' = << >>
    /\ img2' = << >>
    /\ model_name' = "VGG-Face"
    /\ distance_metric' = "cosine"
    /\ vi' = 0
    /\ vj' = 0
    /\ faces2' = << >>
    /\ distances' = << >>
    /\ regions' = << >>
    /\ threshold' = 0
    /\ thresholdArgs' = << >>
    /\ extractCalls' = 0
    /\ representCalls' = 0
    /\ vresult' = NoVerifyResult

Next ==
    \/ AnalyzeCall
    \/ AnalyzeExtract
    \/ AnalyzeBuild
    \/ AnalyzeFace
    \/ AnalyzeReturn
    \/ VerifyCall
    \/ VerifyExtract1
    \/ VerifyOuter
    \/ VerifyPair
    \/ VerifyInnerEnd
    \/ VerifyThreshold
    \/ VerifyMin
    \/ Finish

Spec == Init /\ [][Next]_vars

-----------------------------------------------------------------------------
(* Properties *)

AnalyzeReturned == pc = "done" /\ fn = "analyze" /\ outcome = "returned"
VerifyEnded == pc = "done" /\ fn = "verify"
VerifyReturned == VerifyEnded /\ outcome = "returned"

\* The extraction adapter raised its detection error in this analyze call.
ExtractionFailed == enforce_detection /\ Len(image) = 0

\* The non-degenerate faces of a sequence, in its order, as the faces'
\* (region, confidence) pairs.
RECURSIVE Usable(_)
Usable(fs) ==
    IF Len(fs) = 0 THEN << >>
    ELSE IF Head(fs).shape[1] > 0 /\ Head(fs).shape[2] > 0
         THEN << << Head(fs).region, Head(fs).confidence >> >> \o Usable(Tail(fs))
         ELSE Usable(Tail(fs))

Field(rec, key) == IF key \in DOMAIN rec THEN rec[key] ELSE "absent"

\* The (region, confidence) pairs the records of a sequence carry.
Carried(recs) ==
    [k \in 1..Len(recs) |->
        << Field(recs[k], "region"), Field(recs[k], "face_confidence") >>]

\* The keys the converters of a set of attributes produce.
KeysOf(as) == UNION { DOMAIN Convert(a) : a \in as }

\* The distance the selected metric assigns to two embeddings.
MetricDistance(metric, a, b) ==
    IF metric = "cosine" THEN find_cosine(a, b) ELSE find_euclidean(a, b)

Pairs == (1..Len(img1)) \X (1..Len(img2))
PairDist(p) == MetricDistance(distance_metric, img1[p[1]], img2[p[2]])
Before(p, q) == p[1] < q[1] \/ (p[1] = q[1] /\ p[2] <= q[2])
IsMinPair(p) == \A q \in Pairs : PairDist(p) <= PairDist(q)
FirstMinPair == CHOOSE p \in Pairs :
                   IsMinPair(p) /\ \A q \in Pairs : IsMinPair(q) => Before(p, q)

\* C1: when extraction fails for lack of a face under enforce_detection,
\* analyze returns a sequence of length 0 and does not raise.
C1_NoFaceReturnsEmpty ==
    (pc = "done" /\ fn = "analyze" /\ ExtractionFailed)
        => (outcome = "returned" /\ Len(aresult) = 0)

\* C2: a result verify returns for N >= 1 and M >= 1 faces carries the
\* minimum of the N*M pair distances and the regions of the first pair, in
\* extraction order (image1 outer, image2 inner), that attains it.
C2_MinimumPairFirstOnTies ==
    VerifyReturned =>
        /\ Pairs # {}
        /\ vresult.distance = PairDist(FirstMinPair)
        /\ \A q \in Pairs : vresult.distance <= PairDist(q)
        /\ vresult.facial_areas = [img1 |-> Region(1, FirstMinPair[1]),
                                   img2 |-> Region(2, FirstMinPair[2])]

\* C2's case: several pairs tie for the minimum and the first of them is not
\* the first pair of the cross-product.
C2_Witness ==
    /\ VerifyReturned
    /\ Len(img1) >= 2 /\ Len(img2) >= 2
    /\ Cardinality({ p \in Pairs : IsMinPair(p) }) >= 2
    /\ FirstMinPair # << 1, 1 >>
    /\ vresult.facial_areas.img1 = Region(1, FirstMinPair[1])

\* C3: with zero faces in either image verify ends with the detection error
\* (no comparable faces), never with the error of a minimum over an empty list.
C3_ZeroFacesDefinedError ==
    (VerifyEnded /\ (Len(img1) = 0 \/ Len(img2) = 0))
        => outcome = "NoFaceDetected"

\* C4: every record of a non-degenerate face holds region and
\* face_confidence and exactly the keys of the attributes that were computed
\* without error on that face, none of them null; a failure drops only its
\* own attribute, and the call goes on to return one record per such face.
C4_RecordsHoldExactlyComputedAttributes ==
    fn = "analyze" =>
        /\ Len(attrLog) = Len(resp_objects)
        /\ \A k \in 1..Len(resp_objects) :
              /\ DOMAIN resp_objects[k] =
                    {"region", "face_confidence"} \cup KeysOf(attrLog[k])
              /\ \A key \in DOMAIN resp_objects[k] : resp_objects[k][key] # "null"
        /\ (AnalyzeReturned /\ ~ExtractionFailed) =>
              /\ aresult = resp_objects
              /\ Len(aresult) = Len(Usable(image))

\* C4's case: a returned record where one requested attribute failed and
\* another succeeded, followed by a further record.
C4_Witness ==
    /\ AnalyzeReturned
    /\ Len(aresult) >= 2
    /\ attrLog[1] # {}
    /\ attrLog[1] # RequestedModels(actions)
    /\ "region" \in DOMAIN aresult[1]
    /\ attrLog[2] # {}

\* C5: a metric name outside the closed set fails with a configuration
\* error at call entry, before any extraction or embedding.
C5_UnknownMetricFailsAtEntry ==
    (fn = "verify" /\ distance_metric \notin Metrics)
        => /\ extractCalls = 0
           /\ representCalls = 0
           /\ pc = "done" => outcome = "ConfigurationError"

\* C6: with euclidean_l2 and at least one face in each image verify
\* computes every pair's distance and returns a result.
C6_EuclideanL2Returns ==
    (VerifyEnded /\ distance_metric = "euclidean_l2"
        /\ Len(img1) >= 1 /\ Len(img2) >= 1)
        => outcome = "returned"

\* C7: a result verify returns is complete; threshold is the registry's
\* value for (model_name, distance_metric), model and similarity_metric echo
\* the arguments, and verified holds exactly when distance <= threshold.
C7_ResultCompleteAndVerdict ==
    VerifyReturned =>
        /\ DOMAIN vresult = {"verified", "distance", "threshold", "model",
                             "similarity_metric", "facial_areas"}
        /\ DOMAIN vresult.facial_areas = {"img1", "img2"}
        /\ thresholdArgs = << model_name, distance_metric >>
        /\ vresult.threshold = threshold
        /\ vresult.model = model_name
        /\ vresult.similarity_metric = distance_metric
        /\ vresult.verified \in BOOLEAN
        /\ vresult.verified <=> (vresult.distance <= vresult.threshold)

\* C7's case: the minimum distance equals the threshold, with a model and a
\* metric other than the defaults.
C7_Witness ==
    /\ VerifyReturned
    /\ vresult.distance = vresult.threshold
    /\ vresult.distance > 0
    /\ vresult.verified
    /\ vresult.model = "Facenet"
    /\ vresult.similarity_metric = "euclidean"

\* C8: the sequence analyze returns is the detected faces with
\* non-degenerate crops, each with its own region and confidence, in
\* extraction order.
C8_ReturnsUsableFacesInOrder ==
    AnalyzeReturned => Carried(aresult) = Usable(image)

\* C9: when the minimum is taken, distances and regions both hold one entry
\* per pair of the cross-product, entry k of each belonging to the same pair,
\* and two embeddings were computed for every pair.
C9_OneDistancePerPair ==
    (fn = "verify" /\ pc = "v_min") =>
        LET N == Len(img1)
            M == Len(img2)
        IN  /\ Len(distances) = N * M
            /\ Len(regions) = N * M
            /\ representCalls = 2 * N * M
            /\ \A i \in 1..N, j \in 1..M :
                  LET k == (i - 1) * M + j IN
                  /\ regions[k] = << Region(1, i), Region(2, j) >>
                  /\ distances[k] = PairDist(<< i, j >>)

\* C9's case: two faces in each image, four pairs.
C9_Witness ==
    /\ fn = "verify" /\ pc = "v_min"
    /\ Len(img1) >= 2 /\ Len(img2) >= 2
    /\ Len(distances) = Len(img1) * Len(img2)
    /\ representCalls >= 8

\* C10: past extraction, each attribute whose flag is true has had its
\* predictor built exactly once and no other attribute has, from before the
\* first face on; every predict call uses that one instance; an attribute
\* whose flag is false contributes no key to any record.
C10_PredictorsBuiltOncePerRequestedAttribute ==
    fn = "analyze" =>
        /\ pc \in {"a_extract", "a_build"} =>
              /\ \A a \in Attrs : buildCount[a] = 0
              /\ predictLog = {}
              /\ resp_objects = << >>
        /\ (pc = "a_loop" \/ (pc = "done" /\ ~ExtractionFailed)) =>
              /\ \A a \in Attrs : buildCount[a] = IF actions[a] THEN 1 ELSE 0
              /\ DOMAIN models = { a \in Attrs : actions[a] }
              /\ \A e \in predictLog :
                    /\ actions[e[2]]
                    /\ e[3] = models[e[2]]
              /\ \A k \in 1..Len(resp_objects) :
                    DOMAIN resp_objects[k] \cap
                        KeysOf({ a \in Attrs : ~actions[a] }) = {}

\* C10's case: two faces went through the predictors of a call that
\* requested some attributes and not others.
C10_Witness ==
    /\ AnalyzeReturned
    /\ Len(aresult) >= 2
    /\ \E a \in Attrs : actions[a]
    /\ \E a \in Attrs : ~actions[a]
    /\ \E e1 \in predictLog, e2 \in predictLog :
          e1[1] # e2[1] /\ e1[2] = e2[2] /\ e1[3] = e2[3]

=============================================================================
